---- MODULE Spec2Model ----
(***************************************************************************)
(* Model of src/py/flwr/cli/flower_toml.py: the structural validator       *)
(* validate_flower_toml_fields, the reference validator                    *)
(* validate_object_reference, the orchestrator validate_flower_toml and    *)
(* the defaults merger apply_defaults.                                     *)
(*                                                                         *)
(* Strings that the code takes apart (object references) are sequences of  *)
(* one-character strings; dictionaries are functions with a finite domain  *)
(* of keys.  Python dictionaries that apply_defaults mutates and aliases   *)
(* live in an explicit heap of addresses.                                  *)
(***************************************************************************)
EXTENDS Integers, Sequences, FiniteSets, TLC

VARIABLES
    config,          \* the configuration handed to the validators
    modsys,          \* the host module system: outcome of importing each known module
    objs,            \* the host object graph: attributes of every loaded object
    pc,              \* position inside validate_flower_toml
    fields,          \* result of validate_flower_toml_fields (line 117)
    result,          \* value returned by validate_flower_toml
    who,             \* which call of validate_object_reference is running
    ref,             \* argument of validate_object_reference
    rpc,             \* position inside validate_object_reference
    module_str,      \* line 83
    attributes_str,  \* line 83
    names,           \* attribute names still to be looked up (line 104)
    attribute,       \* the object the next getattr starts from (lines 102, 105)
    ref_result,      \* value returned by validate_object_reference
    exc,             \* the exception in flight, "none" when there is none
    log,             \* imports and attribute lookups performed, in order
    heap,            \* address -> Python dict (apply_defaults)
    cfg,             \* address of the configuration given to apply_defaults
    calls,           \* the apply_defaults calls made so far
    returned         \* address returned by the last apply_defaults call

vars == <<config, modsys, objs, pc, fields, result, who, ref, rpc, module_str,
          attributes_str, names, attribute, ref_result, exc, log, heap, cfg,
          calls, returned>>

valVars == <<config, modsys, objs, pc, fields, result, who, ref, rpc, module_str,
             attributes_str, names, attribute, ref_result, exc, log>>

defVars == <<heap, cfg, calls, returned>>

\* ------------------------------------------------------------------ bounds

\* longest object reference, in characters
MaxLen == 5

\* most apply_defaults calls made on one configuration
MaxCalls == 2

\* ----------------------------------------------------------------- strings

\* Python's None where a string may stand: no string starts with this marker
None == <<"None">>

\* what getattr yields in place of an object when it raises AttributeError
AttributeError == "AttributeError"

Chars == {"m", "a", ":", "."}

Strings(n) == UNION {[1..k -> Chars] : k \in 0..n}

\* index of the first occurrence of c in s at or after i, 0 when there is none
RECURSIVE find(_, _, _)
find(s, c, i) ==
    IF i > Len(s) THEN 0
    ELSE IF s[i] = c THEN i
    ELSE find(s, c, i + 1)

\* str.partition(sep): head, and tail after the first sep (both from the one split)
partition(s, sep) ==
    LET i == find(s, sep, 1)
    IN  IF i = 0 THEN <<s, <<>>>>
        ELSE <<SubSeq(s, 1, i - 1), SubSeq(s, i + 1, Len(s))>>

\* str.split(sep): always at least one piece, empty pieces kept
RECURSIVE split(_, _)
split(s, sep) ==
    LET i == find(s, sep, 1)
    IN  IF i = 0 THEN <<s>>
        ELSE <<SubSeq(s, 1, i - 1)>> \o split(SubSeq(s, i + 1, Len(s)), sep)

\* an f-string: the literal text followed by the interpolated string
fmt1(text, s) == <<text>> \o s

fmt2(text1, s1, text2, s2) == <<text1>> \o s1 \o <<text2>> \o s2

\* ------------------------------------------------------------ dictionaries

Dicts(K, V) == UNION {[S -> V] : S \in SUBSET K}

Has(d, k) == k \in DOMAIN d

EmptyDict == [x \in {} |-> x]

\* ------------------------------------------- validate_flower_toml_fields

ProjectKeys == {"name", "version", "description", "license", "authors"}

ComponentKeys == {"serverapp", "clientapp"}

MissingSection(section) == <<"Missing ", section, " section">>

MissingProperty(k, section) == <<"Property ", k, " missing in ", section>>

MissingRecommended(k, section) == <<"Recommended property ", k, " missing in ", section>>

\* one `if k not in d: out.append(msg)` statement
appendIfMissing(out, d, k, msg) == IF Has(d, k) THEN out ELSE Append(out, msg)

\* faulty variant: the version check hangs off the name check as an elif
projectChecks_elif(c) ==
    IF ~Has(c, "project")
    THEN <<<<MissingSection("[project]")>>, <<>>>>
    ELSE LET p  == c["project"]
             e2 == IF ~Has(p, "name")
                   THEN <<MissingProperty("name", "[project]")>>
                   ELSE appendIfMissing(<<>>, p, "version",
                                        MissingProperty("version", "[project]"))
             w1 == appendIfMissing(<<>>, p, "description",
                                   MissingRecommended("description", "[project]"))
             w2 == appendIfMissing(w1, p, "license",
                                   MissingRecommended("license", "[project]"))
             w3 == appendIfMissing(w2, p, "authors",
                                   MissingRecommended("authors", "[project]"))
         IN  <<e2, w3>>

\* lines 47-59: the [project] checks; <<errors, warnings>> after them
projectChecks(c) ==
    IF ~Has(c, "project")
    THEN <<<<MissingSection("[project]")>>, <<>>>>
    ELSE LET p  == c["project"]
             e1 == appendIfMissing(<<>>, p, "name", MissingProperty("name", "[project]"))
             e2 == appendIfMissing(e1, p, "version", MissingProperty("version", "[project]"))
             w1 == appendIfMissing(<<>>, p, "description",
                                   MissingRecommended("description", "[project]"))
             w2 == appendIfMissing(w1, p, "license",
                                   MissingRecommended("license", "[project]"))
             w3 == appendIfMissing(w2, p, "authors",
                                   MissingRecommended("authors", "[project]"))
         IN  <<e2, w3>>

\* lines 61-69: the [flower] checks, appending to errors
flowerChecks(c, errors) ==
    IF ~Has(c, "flower")
    THEN Append(errors, MissingSection("[flower]"))
    ELSE IF ~Has(c["flower"], "components")
    THEN Append(errors, MissingSection("[flower.components]"))
    ELSE LET k  == c["flower"]["components"]
             e1 == appendIfMissing(errors, k, "serverapp",
                                   MissingProperty("serverapp", "[flower.components]"))
         IN  appendIfMissing(e1, k, "clientapp",
                             MissingProperty("clientapp", "[flower.components]"))

\* faulty variant: a warning also clears the success flag
validate_flower_toml_fields_strict(c) ==
    LET pw     == projectChecks(c)
        errors == flowerChecks(c, pw[1])
    IN  <<Len(errors) = 0 /\ Len(pw[2]) = 0, errors, pw[2]>>

\* lines 40-71: <<flag, errors, warnings>>
validate_flower_toml_fields(c) ==
    LET pw     == projectChecks(c)
        errors == flowerChecks(c, pw[1])
    IN  <<Len(errors) = 0, errors, pw[2]>>

\* ------------------------------------------------- the host module system

KnownModules == {<<"m">>, <<"a">>}

\* what importing one module by itself does
Outcomes == {"Loaded", "ModuleNotFoundError", "ImportError"}

Objects == {"mod_m", "mod_a", "o1", "o2"}

ModuleObject(name) == IF name = <<"m">> THEN "mod_m" ELSE "mod_a"

\* attribute names are non-empty and hold no "."
AttrM == <<"m">>

AttrA == <<"a">>

\* the object graphs the host may present
Worlds ==
    { [o \in Objects |->
          CASE o = "mod_m" -> (AttrA :> "o1")
            [] o = "mod_a" -> (AttrM :> "o2")
            [] o = "o1"    -> (AttrM :> "o2")
            [] o = "o2"    -> (AttrA :> "o1")],
      [o \in Objects |->
          CASE o = "mod_m" -> (AttrM :> "o1" @@ AttrA :> "o2")
            [] o = "mod_a" -> EmptyDict
            [] o = "o1"    -> EmptyDict
            [] o = "o2"    -> (AttrA :> "mod_m")] }

\* importing one module name, its parents already imported
importOne(name) ==
    IF name \in KnownModules THEN modsys[name] ELSE "ModuleNotFoundError"

\* the parent packages of a dotted name, outermost first, then the name itself
importChain(name) ==
    LET dots == {i \in 1..Len(name) : name[i] = "."}
        RECURSIVE chain(_)
        chain(i) ==
            IF i > Len(name) THEN <<name>>
            ELSE IF i \in dots THEN <<SubSeq(name, 1, i - 1)>> \o chain(i + 1)
            ELSE chain(i + 1)
    IN  chain(1)

RECURSIVE firstFailure(_)
firstFailure(chain) ==
    IF chain = <<>> THEN "Loaded"
    ELSE IF importOne(Head(chain)) # "Loaded" THEN importOne(Head(chain))
    ELSE firstFailure(Tail(chain))

\* importlib.import_module(name) with no package: a relative name is a TypeError,
\* otherwise the parents are imported in turn and the first failure is raised
import_module(name) ==
    IF name[1] = "." THEN "TypeError" ELSE firstFailure(importChain(name))

\* getattr(obj, name): the attribute, or AttributeError
getattr(obj, name) ==
    IF name \in DOMAIN objs[obj] THEN objs[obj][name] ELSE AttributeError

\* --------------------------------------------- validate_object_reference

envVars == <<config, modsys, objs>>

tomlVars == <<pc, fields, result>>

\* the caller's frame is untouched while the reference validator runs
RefFrame == UNCHANGED <<envVars, tomlVars, defVars, ref, who, exc>>

\* line 83
Partition ==
    /\ rpc = "l83"
    /\ module_str' = partition(ref, ":")[1]
    /\ attributes_str' = partition(ref, ":")[2]
    /\ rpc' = "l84"
    /\ UNCHANGED <<names, attribute, ref_result, log>>
    /\ RefFrame

\* lines 84-88
MissingModule ==
    /\ rpc = "l84"
    /\ module_str = <<>>
    /\ ref_result' = <<FALSE, fmt1("Missing module in ", ref)>>
    /\ rpc' = "returned"
    /\ UNCHANGED <<module_str, attributes_str, names, attribute, log>>
    /\ RefFrame

\* lines 89-93
MissingAttribute ==
    /\ rpc = "l84"
    /\ module_str # <<>>
    /\ attributes_str = <<>>
    /\ ref_result' = <<FALSE, fmt1("Missing attribute in ", ref)>>
    /\ rpc' = "returned"
    /\ UNCHANGED <<module_str, attributes_str, names, attribute, log>>
    /\ RefFrame

PartsPresent ==
    /\ rpc = "l84"
    /\ module_str # <<>>
    /\ attributes_str # <<>>

\* lines 97, 102, 104: the import succeeds
ImportLoaded ==
    /\ PartsPresent
    /\ import_module(module_str) = "Loaded"
    /\ log' = Append(log, <<"import", who, module_str>>)
    /\ attribute' = ModuleObject(module_str)
    /\ names' = split(attributes_str, ".")
    /\ rpc' = "l104"
    /\ UNCHANGED <<module_str, attributes_str, ref_result>>
    /\ RefFrame

\* lines 97-99: ModuleNotFoundError is caught
ImportNotFound ==
    /\ PartsPresent
    /\ import_module(module_str) = "ModuleNotFoundError"
    /\ log' = Append(log, <<"import", who, module_str>>)
    /\ ref_result' = <<FALSE, fmt1("Unable to load module ", module_str)>>
    /\ rpc' = "returned"
    /\ UNCHANGED <<module_str, attributes_str, names, attribute>>
    /\ RefFrame

\* line 97: any other exception of the import leaves the function
ImportRaises ==
    /\ PartsPresent
    /\ import_module(module_str) \notin {"Loaded", "ModuleNotFoundError"}
    /\ log' = Append(log, <<"import", who, module_str>>)
    /\ exc' = import_module(module_str)
    /\ rpc' = "raised"
    /\ UNCHANGED <<module_str, attributes_str, names, attribute, ref_result>>
    /\ UNCHANGED <<envVars, tomlVars, defVars, ref, who>>

\* faulty variant: every name is looked up on the module itself
lookupBase_module == ModuleObject(module_str)

\* the object line 105 looks the next name up on
lookupBase == attribute

\* lines 104-105: one iteration, the lookup succeeds
GetAttr ==
    /\ rpc = "l104"
    /\ names # <<>>
    /\ getattr(lookupBase, Head(names)) # AttributeError
    /\ log' = Append(log, <<"getattr", who, lookupBase, Head(names)>>)
    /\ attribute' = getattr(lookupBase, Head(names))
    /\ names' = Tail(names)
    /\ UNCHANGED <<module_str, attributes_str, ref_result, rpc>>
    /\ RefFrame

\* lines 105-110: AttributeError is caught
GetAttrFails ==
    /\ rpc = "l104"
    /\ names # <<>>
    /\ getattr(lookupBase, Head(names)) = AttributeError
    /\ log' = Append(log, <<"getattr", who, lookupBase, Head(names)>>)
    /\ ref_result' = <<FALSE, fmt2("Unable to load attribute ", attributes_str,
                                   " from module ", module_str)>>
    /\ rpc' = "returned"
    /\ UNCHANGED <<module_str, attributes_str, names, attribute>>
    /\ RefFrame

\* line 112
ReturnResolved ==
    /\ rpc = "l104"
    /\ names = <<>>
    /\ ref_result' = <<TRUE, None>>
    /\ rpc' = "returned"
    /\ UNCHANGED <<module_str, attributes_str, names, attribute, log>>
    /\ RefFrame

validate_object_reference ==
    \/ Partition
    \/ MissingModule
    \/ MissingAttribute
    \/ ImportLoaded
    \/ ImportNotFound
    \/ ImportRaises
    \/ GetAttr
    \/ GetAttrFails
    \/ ReturnResolved

\* ------------------------------------------------- validate_flower_toml

TomlFrame == UNCHANGED <<envVars, defVars, module_str, attributes_str, names,
                         attribute, ref_result, exc, log>>

\* entering validate_object_reference(r) from the call site `site`
CallRef(site, r) ==
    /\ ref' = r
    /\ who' = site
    /\ rpc' = "l83"

isinstance_str(reason) == reason # None

\* line 117
ValidateFields ==
    /\ pc = "l117"
    /\ fields' = validate_flower_toml_fields(config)
    /\ pc' = "l119"
    /\ UNCHANGED <<result, ref, who, rpc>>
    /\ TomlFrame

\* faulty variant: the structural warnings are dropped on the early return
ReturnInvalid_noWarnings ==
    /\ pc = "l119"
    /\ ~fields[1]
    /\ result' = <<FALSE, fields[2], <<>>>>
    /\ pc' = "done"
    /\ UNCHANGED <<fields, ref, who, rpc>>
    /\ TomlFrame

\* lines 119-120
ReturnInvalid ==
    /\ pc = "l119"
    /\ ~fields[1]
    /\ result' = <<FALSE, fields[2], fields[3]>>
    /\ pc' = "done"
    /\ UNCHANGED <<fields, ref, who, rpc>>
    /\ TomlFrame

\* lines 123-125
CallServerapp ==
    /\ pc = "l119"
    /\ fields[1]
    /\ CallRef("serverapp", config["flower"]["components"]["serverapp"])
    /\ pc' = "l123"
    /\ UNCHANGED <<fields, result>>
    /\ TomlFrame

\* faulty variant: a failed serverapp check does not end the validation
serverappFailed_never == FALSE

\* line 126: the test that ends the validation after the serverapp check
serverappFailed == ~ref_result[1] /\ isinstance_str(ref_result[2])

\* lines 126-127
ServerappInvalid ==
    /\ pc = "l123"
    /\ rpc = "returned"
    /\ serverappFailed
    /\ result' = <<FALSE, <<ref_result[2]>>, <<>>>>
    /\ pc' = "done"
    /\ UNCHANGED <<fields, ref, who, rpc>>
    /\ TomlFrame

\* lines 126, 130-132
CallClientapp ==
    /\ pc = "l123"
    /\ rpc = "returned"
    /\ ~serverappFailed
    /\ CallRef("clientapp", config["flower"]["components"]["clientapp"])
    /\ pc' = "l130"
    /\ UNCHANGED <<fields, result>>
    /\ TomlFrame

\* lines 134-135
ClientappInvalid ==
    /\ pc = "l130"
    /\ rpc = "returned"
    /\ ~ref_result[1] /\ isinstance_str(ref_result[2])
    /\ result' = <<FALSE, <<ref_result[2]>>, <<>>>>
    /\ pc' = "done"
    /\ UNCHANGED <<fields, ref, who, rpc>>
    /\ TomlFrame

\* faulty variant: the structural warnings are passed on with the success
ReturnValid_keepWarnings ==
    /\ pc = "l130"
    /\ rpc = "returned"
    /\ ~(~ref_result[1] /\ isinstance_str(ref_result[2]))
    /\ result' = <<TRUE, <<>>, fields[3]>>
    /\ pc' = "done"
    /\ UNCHANGED <<fields, ref, who, rpc>>
    /\ TomlFrame

\* line 137
ReturnValid ==
    /\ pc = "l130"
    /\ rpc = "returned"
    /\ ~(~ref_result[1] /\ isinstance_str(ref_result[2]))
    /\ result' = <<TRUE, <<>>, <<>>>>
    /\ pc' = "done"
    /\ UNCHANGED <<fields, ref, who, rpc>>
    /\ TomlFrame

\* lines 123, 130: validate_flower_toml has no handler, the exception goes on up
Propagate ==
    /\ pc \in {"l123", "l130"}
    /\ rpc = "raised"
    /\ pc' = "raised"
    /\ UNCHANGED <<fields, result, ref, who, rpc>>
    /\ TomlFrame

validate_flower_toml ==
    \/ ValidateFields
    \/ ReturnInvalid
    \/ CallServerapp
    \/ ServerappInvalid
    \/ CallClientapp
    \/ ClientappInvalid
    \/ ReturnValid
    \/ Propagate

\* --------------------------------------------------------- apply_defaults

\* A heap cell is a Python dict: key -> value, a value being a number or the
\* address of another dict.
Keys == {"a", "b"}

\* the order a dict built from a literal yields its keys in
KeyOrder == <<"a", "b">>

IntVal(n) == [t |-> "int", v |-> n]

DictVal(addr) == [t |-> "dict", v |-> addr]

\* isinstance(x, dict)
isinstance_dict(x) == x.t = "dict"

RECURSIVE apply_defaults(_, _, _)
RECURSIVE mergeKeys(_, _, _, _)

RECURSIVE mergeKeys_override(_, _, _, _)
RECURSIVE mergeKeys_shell(_, _, _, _)

\* faulty variant: a present value that is not merged is replaced by the default
mergeKeys_override(h, c, d, keys) ==
    IF keys = <<>> THEN h
    ELSE LET key == Head(keys)
         IN  IF Has(h[c], key)
                /\ isinstance_dict(h[c][key]) /\ isinstance_dict(h[d][key])
             THEN mergeKeys_override(apply_defaults(h, h[c][key].v, h[d][key].v),
                                     c, d, Tail(keys))
             ELSE mergeKeys_override([h EXCEPT ![c] = (key :> h[d][key]) @@ @],
                                     c, d, Tail(keys))

\* faulty variant: a missing dict is filled in as a new empty dict, not as the default
mergeKeys_shell(h, c, d, keys) ==
    IF keys = <<>> THEN h
    ELSE LET key == Head(keys)
         IN  IF Has(h[c], key)
             THEN IF isinstance_dict(h[c][key]) /\ isinstance_dict(h[d][key])
                  THEN mergeKeys_shell(apply_defaults(h, h[c][key].v, h[d][key].v),
                                       c, d, Tail(keys))
                  ELSE mergeKeys_shell(h, c, d, Tail(keys))
             ELSE IF isinstance_dict(h[d][key])
             THEN mergeKeys_shell(
                      Append([h EXCEPT ![c] = @ @@ (key :> DictVal(Len(h) + 1))],
                             EmptyDict),
                      c, d, Tail(keys))
             ELSE mergeKeys_shell([h EXCEPT ![c] = @ @@ (key :> h[d][key])],
                                  c, d, Tail(keys))

\* lines 145-150: the loop body for the keys still to come
mergeKeys(h, c, d, keys) ==
    IF keys = <<>> THEN h
    ELSE LET key == Head(keys)
         IN  IF Has(h[c], key)
             THEN IF isinstance_dict(h[c][key]) /\ isinstance_dict(h[d][key])
                  THEN mergeKeys(apply_defaults(h, h[c][key].v, h[d][key].v),
                                 c, d, Tail(keys))
                  ELSE mergeKeys(h, c, d, Tail(keys))
             ELSE mergeKeys([h EXCEPT ![c] = @ @@ (key :> h[d][key])],
                            c, d, Tail(keys))

\* lines 140-151: the heap after apply_defaults(config at c, defaults at d)
apply_defaults(h, c, d) ==
    mergeKeys(h, c, d, SelectSeq(KeyOrder, LAMBDA k : Has(h[d], k)))

\* --- trees by value, and building them on the heap

IntLeaf(n) == [int |-> n]

SubTree(t) == [dict |-> t]

IsInt(x) == "int" \in DOMAIN x

\* dicts of numbers only
Leaves(n) == Dicts(Keys, {IntLeaf(n)})

\* dicts of numbers and of dicts of numbers, every number being n
Trees(n) == Dicts(Keys, {IntLeaf(n)} \cup {SubTree(l) : l \in Leaves(n)})

RECURSIVE Alloc(_, _)
RECURSIVE allocKeys(_, _, _, _)

allocKeys(h, a, t, keys) ==
    IF keys = <<>> THEN h
    ELSE LET k == Head(keys)
         IN  IF ~Has(t, k) THEN allocKeys(h, a, t, Tail(keys))
             ELSE IF IsInt(t[k])
             THEN allocKeys([h EXCEPT ![a] = @ @@ (k :> IntVal(t[k].int))],
                            a, t, Tail(keys))
             ELSE LET h1 == Alloc(h, t[k].dict)
                  IN  allocKeys([h1 EXCEPT ![a] = @ @@ (k :> DictVal(Len(h) + 1))],
                                a, t, Tail(keys))

\* the heap after the caller builds the dict literal t; its root is at Len(h) + 1
Alloc(h, t) == allocKeys(Append(h, EmptyDict), Len(h) + 1, t, KeyOrder)

\* the tree a dict holds, by value
RECURSIVE Content(_, _)
Content(h, a) ==
    [k \in DOMAIN h[a] |->
        IF isinstance_dict(h[a][k]) THEN SubTree(Content(h, h[a][k].v))
        ELSE IntLeaf(h[a][k].v)]

\* one call apply_defaults(config, defaults) with defaults at address d
ApplyAt(h, d) ==
    LET h2 == apply_defaults(h, cfg, d)
    IN  /\ heap' = h2
        /\ calls' = Append(calls, [defaults |-> d,
                                   given    |-> Content(h, d),
                                   before   |-> Content(h, cfg),
                                   after    |-> Content(h2, cfg)])
        /\ returned' = cfg
        /\ UNCHANGED <<cfg, valVars>>

\* the caller passes a defaults tree it has just built
ApplyFresh ==
    /\ cfg # 0
    /\ Len(calls) < MaxCalls
    /\ \E t \in Trees(Len(calls) + 2) :
          ApplyAt(Alloc(heap, t), Len(heap) + 1)

\* the caller passes a defaults tree it has passed before
ApplyAgain ==
    /\ cfg # 0
    /\ Len(calls) < MaxCalls
    /\ \E i \in 1..Len(calls) : ApplyAt(heap, calls[i].defaults)

\* --------------------------------------------------------- specifications

TomlRefs ==
    { <<"m", ":", "a", ".", "m">>, <<"a", ":", "m">>, <<":", "a">>, <<"m", ":">>,
      <<".", "m", ":", "a">> }

ProjectDicts == Dicts(ProjectKeys, {"x"})

ComponentDicts == Dicts(ComponentKeys, TomlRefs)

FlowerDicts == {EmptyDict} \cup {("components" :> k) : k \in ComponentDicts}

Configs ==
    { p @@ f : p \in {EmptyDict} \cup {("project" :> d) : d \in ProjectDicts},
               f \in {EmptyDict} \cup {("flower" :> d) : d \in FlowerDicts} }

EnvInit ==
    /\ modsys \in [KnownModules -> Outcomes]
    /\ objs \in Worlds

RefIdle ==
    /\ module_str = <<>>
    /\ attributes_str = <<>>
    /\ names = <<>>
    /\ attribute = "unset"
    /\ ref_result = <<>>
    /\ exc = "none"
    /\ log = <<>>

DefIdle ==
    /\ heap = <<>>
    /\ cfg = 0
    /\ calls = <<>>
    /\ returned = 0

\* validate_flower_toml(config) is called
InitToml ==
    /\ config \in Configs
    /\ EnvInit
    /\ pc = "l117"
    /\ fields = <<>>
    /\ result = <<>>
    /\ who = "none"
    /\ ref = <<>>
    /\ rpc = "idle"
    /\ RefIdle
    /\ DefIdle

\* validate_object_reference(ref) is called directly
InitRef ==
    /\ config = EmptyDict
    /\ EnvInit
    /\ pc = "none"
    /\ fields = <<>>
    /\ result = <<>>
    /\ who = "direct"
    /\ ref \in Strings(MaxLen)
    /\ rpc = "l83"
    /\ RefIdle
    /\ DefIdle

\* a configuration tree has been built and apply_defaults is about to be called
InitDefaults ==
    /\ config = EmptyDict
    /\ modsys = [n \in KnownModules |-> "Loaded"]
    /\ objs = [o \in Objects |-> EmptyDict]
    /\ pc = "none"
    /\ fields = <<>>
    /\ result = <<>>
    /\ who = "none"
    /\ ref = <<>>
    /\ rpc = "idle"
    /\ RefIdle
    /\ \E t \in Trees(1) :
          /\ heap = Alloc(<<>>, t)
          /\ cfg = 1
    /\ calls = <<>>
    /\ returned = 0

NextToml == validate_flower_toml \/ validate_object_reference

NextRef == validate_object_reference

NextDefaults == ApplyFresh \/ ApplyAgain

SpecToml == InitToml /\ [][NextToml]_vars

SpecRef == InitRef /\ [][NextRef]_vars

SpecDefaults == InitDefaults /\ [][NextDefaults]_vars

Init == InitToml \/ InitRef \/ InitDefaults

Next == NextToml \/ NextDefaults

Spec == Init /\ [][Next]_vars

\* ------------------------------------------------------------ properties

\* the messages for the keys of `keys`, in order, that d lacks
Absent(keys, d, msg(_)) ==
    LET miss == SelectSeq(keys, LAMBDA k : k \notin DOMAIN d)
    IN  [i \in 1..Len(miss) |-> msg(miss[i])]

C1_ProjectErrors(c) ==
    IF "project" \notin DOMAIN c THEN <<MissingSection("[project]")>>
    ELSE Absent(<<"name", "version">>, c["project"],
                LAMBDA k : MissingProperty(k, "[project]"))

C1_FlowerErrors(c) ==
    IF "flower" \notin DOMAIN c THEN <<MissingSection("[flower]")>>
    ELSE IF "components" \notin DOMAIN c["flower"]
    THEN <<MissingSection("[flower.components]")>>
    ELSE Absent(<<"serverapp", "clientapp">>, c["flower"]["components"],
                LAMBDA k : MissingProperty(k, "[flower.components]"))

C1_Warnings(c) ==
    IF "project" \notin DOMAIN c THEN <<>>
    ELSE Absent(<<"description", "license", "authors">>, c["project"],
                LAMBDA k : MissingRecommended(k, "[project]"))

\* C1: the errors validate_flower_toml_fields returns are exactly the [project]
\* error, or else the name and version errors for the absent ones, followed by
\* the [flower] error, or else the [flower.components] error, or else the
\* serverapp and clientapp errors for the absent ones; the warnings are exactly
\* the description, license, authors warnings for the keys a present project
\* lacks, and none when project is absent.
C1_AllChecksRun ==
    pc \in {"l119", "l123", "l130", "done", "raised"} =>
        /\ fields[2] = C1_ProjectErrors(config) \o C1_FlowerErrors(config)
        /\ fields[3] = C1_Warnings(config)

C1_Witness ==
    /\ pc = "l119"
    /\ Has(config, "project") /\ Has(config, "flower")
    /\ Len(fields[2]) = 3
    /\ Len(fields[3]) = 2

\* the configuration with exactly the recommended project keys of S present
WithRecommended(c, S) ==
    [c EXCEPT !["project"] =
        [k \in (DOMAIN @ \ {"description", "license", "authors"}) \cup S |-> "x"]]

\* C2: the success flag of validate_flower_toml_fields is true exactly when its
\* errors list is empty, and configurations that differ only in which
\* recommended project keys are present get the same flag and the same errors.
C2_FlagIffNoErrors ==
    pc \in {"l119", "l123", "l130", "done", "raised"} =>
        /\ fields[1] = (fields[2] = <<>>)
        /\ Has(config, "project") =>
              \A S \in SUBSET {"description", "license", "authors"} :
                  LET other == validate_flower_toml_fields(WithRecommended(config, S))
                  IN  other[1] = fields[1] /\ other[2] = fields[2]

C2_Witness ==
    /\ pc = "l119"
    /\ fields[1]
    /\ Len(fields[3]) = 3

\* C3: when the structural validator reports the configuration invalid,
\* validate_flower_toml returns exactly that result (False, the same errors,
\* the same warnings) and validate_object_reference is never entered: no
\* module import and no attribute lookup happens for serverapp or clientapp.
C3_InvalidSkipsReferences ==
    (pc # "l117" /\ ~fields[1]) =>
        /\ pc \in {"l119", "done"}
        /\ log = <<>> /\ rpc = "idle" /\ who = "none"
        /\ pc = "done" =>
              /\ result = validate_flower_toml_fields(config)
              /\ result[1] = FALSE

C3_Witness ==
    /\ pc = "done"
    /\ ~fields[1]
    /\ result[3] # <<>>
    /\ Has(config, "flower")
    /\ Has(config["flower"], "components")
    /\ Has(config["flower"]["components"], "serverapp")

\* the references of the configuration's two components
ServerappRef == config["flower"]["components"]["serverapp"]

ClientappRef == config["flower"]["components"]["clientapp"]

ImportsBy(site) == {i \in 1..Len(log) : log[i][1] = "import" /\ log[i][2] = site}

LookupsBy(site) == {i \in 1..Len(log) : log[i][2] = site}

C4_ServerappFirst ==
    /\ LookupsBy("clientapp") # {} =>
          /\ ImportsBy("serverapp") # {}
          /\ \A i \in LookupsBy("serverapp"), j \in LookupsBy("clientapp") : i < j
    /\ (pc = "done" /\ fields[1] /\ who = "serverapp") =>
          /\ ref = ServerappRef
          /\ ~ref_result[1]
          /\ result = <<FALSE, <<ref_result[2]>>, <<>>>>
          /\ LookupsBy("clientapp") = {}
    /\ (pc = "done" /\ fields[1] /\ who = "clientapp" /\ ~ref_result[1]) =>
          /\ ref = ClientappRef
          /\ result = <<FALSE, <<ref_result[2]>>, <<>>>>

\* a serverapp check that has returned a failure ends the validation at once
C4_FailureEnds ==
    (pc = "l123" /\ rpc = "returned" /\ ~ref_result[1]) =>
        /\ pc' = "done"
        /\ result' = <<FALSE, <<ref_result[2]>>, <<>>>>
        /\ log' = log

\* the clientapp check is entered only from a serverapp check that returned (True, None)
C4_ClientappAfterSuccess ==
    (who' = "clientapp" /\ who # "clientapp") =>
        /\ who = "serverapp"
        /\ rpc = "returned"
        /\ ref_result = <<TRUE, None>>
        /\ ref' = ClientappRef

\* C4: for a structurally valid configuration validate_flower_toml checks
\* serverapp before clientapp and short-circuits: a serverapp reference that
\* fails to resolve gives (False, [reason], []) with the one serverapp reason
\* and the clientapp reference is never checked (nothing is imported or looked
\* up for it); the clientapp reference is checked only after the serverapp
\* check returned success, and its failure gives (False, [clientapp reason], []).
C4_ServerappShortCircuits ==
    /\ []C4_ServerappFirst
    /\ [][C4_FailureEnds]_vars
    /\ [][C4_ClientappAfterSuccess]_vars

C4_Witness ==
    /\ pc = "done"
    /\ fields[1]
    /\ who = "serverapp"
    /\ result[1] = FALSE
    /\ ImportsBy("serverapp") # {}
    /\ ClientappRef = <<"a", ":", "m">>
    /\ modsys[<<"a">>] = "Loaded"

\* C9: when both component references resolve validate_flower_toml returns
\* exactly (True, [], []) whatever warnings the structural validator produced;
\* the returned flag is true exactly when the returned errors list is empty,
\* and the returned warnings are non-empty only for a structurally invalid
\* configuration.
C9_SuccessDropsWarnings ==
    pc = "done" =>
        /\ (fields[1] /\ who = "clientapp" /\ ref_result = <<TRUE, None>>)
              => result = <<TRUE, <<>>, <<>>>>
        /\ result[1] = (result[2] = <<>>)
        /\ result[3] # <<>> => ~validate_flower_toml_fields(config)[1]

C9_Witness ==
    /\ pc = "done"
    /\ result[1]
    /\ Len(fields[3]) = 3
    /\ Len(log) >= 4

\* C6: validate_flower_toml and validate_object_reference always end by
\* returning a result tuple; no exception of the module system leaves them.
C6_NeverThrows == rpc # "raised" /\ pc # "raised" /\ exc = "none"

\* the reference as <<module part, attribute part>>, cut at its first ":"
C5_Parts(r) ==
    LET colons == {i \in 1..Len(r) : r[i] = ":"}
    IN  IF colons = {} THEN <<r, <<>>>>
        ELSE LET i == CHOOSE i \in colons : \A j \in colons : i <= j
             IN  <<SubSeq(r, 1, i - 1), SubSeq(r, i + 1, Len(r))>>

\* the dot-separated names of an attribute part
RECURSIVE C5_Names(_)
C5_Names(ap) ==
    LET dots == {i \in 1..Len(ap) : ap[i] = "."}
    IN  IF dots = {} THEN <<ap>>
        ELSE LET i == CHOOSE i \in dots : \A j \in dots : j <= i
             IN  Append(C5_Names(SubSeq(ap, 1, i - 1)), SubSeq(ap, i + 1, Len(ap)))

\* the objects met walking ns from o, as far as the walk gets
RECURSIVE C5_Walk(_, _)
C5_Walk(o, ns) ==
    IF ns = <<>> THEN <<o>>
    ELSE IF Head(ns) \notin DOMAIN objs[o] THEN <<o>>
    ELSE <<o>> \o C5_Walk(objs[o][Head(ns)], Tail(ns))

C5_Expected(r) ==
    LET mp == C5_Parts(r)[1]
        ap == C5_Parts(r)[2]
    IN  IF mp = <<>> THEN <<FALSE, <<"Missing module in ">> \o r>>
        ELSE IF ap = <<>> THEN <<FALSE, <<"Missing attribute in ">> \o r>>
        ELSE IF import_module(mp) = "ModuleNotFoundError"
        THEN <<FALSE, <<"Unable to load module ">> \o mp>>
        ELSE IF Len(C5_Walk(ModuleObject(mp), C5_Names(ap))) <= Len(C5_Names(ap))
        THEN <<FALSE, <<"Unable to load attribute ">> \o ap
                          \o <<" from module ">> \o mp>>
        ELSE <<TRUE, None>>

\* the lookups made are those of the walk: the i-th starts from the object the
\* (i-1)-th yielded, the first from the module, and none follows a failed one
C5_LookupsChain ==
    LET mp   == C5_Parts(ref)[1]
        ns   == C5_Names(C5_Parts(ref)[2])
        walk == C5_Walk(ModuleObject(mp), ns)
        n    == IF Len(walk) <= Len(ns) THEN Len(walk) ELSE Len(ns)
    IN  /\ Len(log) = n + 1
        /\ log[1] = <<"import", who, mp>>
        /\ \A i \in 1..n : log[i + 1] = <<"getattr", who, walk[i], ns[i]>>

\* C5: validate_object_reference cuts the reference at its first ":" and
\* decides in this order: empty module part, 'Missing module in <ref>'; empty
\* attribute part, 'Missing attribute in <ref>'; module not found, 'Unable to
\* load module <module part>' with no attribute lookup; otherwise the
\* attribute part is split on "." and looked up name by name, each lookup on
\* the previous one's result, the first failure giving 'Unable to load
\* attribute <attribute part> from module <module part>'; (True, None) only
\* when every lookup succeeds.  The flag is true exactly when the reason is None.
C5_ReferencePrecedence ==
    rpc = "returned" =>
        /\ ref_result = C5_Expected(ref)
        /\ ref_result[1] = (ref_result[2] = None)
        /\ C5_Parts(ref)[1] = <<>> \/ C5_Parts(ref)[2] = <<>> => log = <<>>
        /\ (C5_Parts(ref)[1] # <<>> /\ C5_Parts(ref)[2] # <<>>) =>
              IF import_module(C5_Parts(ref)[1]) = "ModuleNotFoundError"
              THEN log = <<<<"import", who, C5_Parts(ref)[1]>>>>
              ELSE C5_LookupsChain

C5_Witness ==
    /\ rpc = "returned"
    /\ ref_result = <<TRUE, None>>
    /\ Len(log) = 3
    /\ log[2][3] # log[3][3]

\* every value of `before` that is not a dict is kept, every dict only gains keys
RECURSIVE C7_Preserved(_, _)
C7_Preserved(before, after) ==
    \A k \in DOMAIN before :
        /\ k \in DOMAIN after
        /\ IF IsInt(before[k]) THEN after[k] = before[k]
           ELSE /\ ~IsInt(after[k])
                /\ C7_Preserved(before[k].dict, after[k].dict)

\* every key of the defaults is present, recursively where both sides are dicts
RECURSIVE C7_Filled(_, _)
C7_Filled(given, after) ==
    \A k \in DOMAIN given :
        /\ k \in DOMAIN after
        /\ (~IsInt(given[k]) /\ ~IsInt(after[k])) =>
              C7_Filled(given[k].dict, after[k].dict)

\* a value whose kind differs from the default's under the same key is untouched
C7_MismatchUntouched(before, given, after) ==
    \A k \in DOMAIN before \cap DOMAIN given :
        IsInt(before[k]) # IsInt(given[k]) => after[k] = before[k]

\* C7: apply_defaults never overrides an explicit value and fills every
\* missing one: values that are not mappings keep their value and mappings
\* only gain keys; every key of the defaults is present afterwards,
\* recursively where both sides are mappings; a value whose kind differs from
\* the default's is left untouched; and the configuration passed in is returned.
C7_DefaultsFillOnly ==
    \A i \in 1..Len(calls) :
        /\ C7_Preserved(calls[i].before, calls[i].after)
        /\ C7_Filled(calls[i].given, calls[i].after)
        /\ C7_MismatchUntouched(calls[i].before, calls[i].given, calls[i].after)
        /\ returned = cfg

C7_Witness ==
    /\ Len(calls) = 1
    /\ calls[1].before = ("a" :> SubTree("a" :> IntLeaf(1)))
    /\ calls[1].given = ("a" :> SubTree("a" :> IntLeaf(2) @@ "b" :> IntLeaf(2))
                         @@ "b" :> IntLeaf(2))
    /\ calls[1].after = ("a" :> SubTree("a" :> IntLeaf(1) @@ "b" :> IntLeaf(2))
                         @@ "b" :> IntLeaf(2))

\* C8: applying the same defaults again right after applying them leaves the
\* configuration equal to the result of the first application.
C8_Idempotent ==
    \A i \in 2..Len(calls) :
        calls[i].defaults = calls[i - 1].defaults =>
            /\ calls[i].before = calls[i - 1].after
            /\ calls[i].after = calls[i - 1].after

C8_Witness ==
    /\ Len(calls) = 2
    /\ calls[2].defaults = calls[1].defaults
    /\ "a" \notin DOMAIN calls[1].before
    /\ "a" \in DOMAIN calls[1].given
    /\ ~IsInt(calls[1].given["a"])
    /\ heap[cfg]["a"] = heap[calls[1].defaults]["a"]

\* C10: every defaults tree passed to an earlier apply_defaults call still
\* holds exactly what it held when it was passed.
C10_DefaultsUntouched ==
    \A i \in 1..Len(calls) : Content(heap, calls[i].defaults) = calls[i].given

====
